---- MODULE Spec2Model ----
(***************************************************************************)
(* The provisioner daemon of src/provisionerd/provisionerd.go: the connect *)
(* loop, the acquire ticker, the job runner with its cleanup goroutine,    *)
(* cancelActiveJob and Close, as goroutines that interleave at every       *)
(* access to the daemon's shared fields.                                   *)
(***************************************************************************)
EXTENDS Integers, Sequences, FiniteSets, TLC

\* ------------------------------------------------------------------ bounds
\* Jobs the control plane hands out to a daemon that is not closed.
MaxJobs == 2
\* Jobs the control plane hands out to a daemon that is closed.
CloseJobs == 1
\* Concurrent callers of Close.
MaxClosers == 2
\* Jobs the control plane hands out to a daemon whose connection stays up.
LogJobs == 3
\* Log messages one provisioner stream yields at most.
MaxLogs == 2
\* Failures the environment injects in one run: a failed dial, a broken update
\* stream, an RPC or a file operation that returns an error.
MaxFaults == 1

JobIds == 1..(IF MaxJobs > LogJobs THEN MaxJobs ELSE LogJobs)
CloserIds == 1..MaxClosers
\* Every session but the first follows the end of an update stream.
SessionIds == 1..(MaxFaults + 1)

\* ------------------------------------------------------------------ paths
\* A string is a sequence of one-character strings.
Slash == "/"
Dot == "."

RECURSIVE SplitAt(_, _)
\* strings.Split(s, "/") with cur the element being read.
SplitAt(s, cur) ==
    IF s = <<>> THEN <<cur>>
    ELSE IF Head(s) = Slash THEN <<cur>> \o SplitAt(Tail(s), <<>>)
    ELSE SplitAt(Tail(s), Append(cur, Head(s)))

Split(s) == SplitAt(s, <<>>)

IsRooted(s) == s /= <<>> /\ Head(s) = Slash

RECURSIVE CleanElems(_, _, _)
\* The element stack of filepath.Clean: "." and empty elements vanish, ".."
\* removes the element before it, and is dropped at the root.
CleanElems(elems, out, rooted) ==
    IF elems = <<>> THEN out
    ELSE LET e == Head(elems)
             rest == Tail(elems)
         IN  IF e = <<>> \/ e = <<Dot>> THEN CleanElems(rest, out, rooted)
             ELSE IF e = <<Dot, Dot>>
                  THEN IF out /= <<>> /\ out[Len(out)] /= <<Dot, Dot>>
                       THEN CleanElems(rest, SubSeq(out, 1, Len(out) - 1), rooted)
                       ELSE IF rooted THEN CleanElems(rest, out, rooted)
                       ELSE CleanElems(rest, Append(out, e), rooted)
             ELSE CleanElems(rest, Append(out, e), rooted)

RECURSIVE JoinElems(_)
JoinElems(elems) ==
    IF elems = <<>> THEN <<>>
    ELSE IF Len(elems) = 1 THEN Head(elems)
    ELSE Head(elems) \o <<Slash>> \o JoinElems(Tail(elems))

\* filepath.Clean
Clean(s) ==
    LET body == JoinElems(CleanElems(Split(s), <<>>, IsRooted(s)))
        full == IF IsRooted(s) THEN <<Slash>> \o body ELSE body
    IN  IF full = <<>> THEN <<Dot>> ELSE full

\* filepath.Join of two elements
Join(a, b) ==
    IF a = <<>> THEN (IF b = <<>> THEN <<>> ELSE Clean(b))
    ELSE IF b = <<>> THEN Clean(a)
    ELSE Clean(a \o <<Slash>> \o b)

\* strings.HasPrefix
HasPrefix(s, prefix) ==
    Len(s) >= Len(prefix) /\ SubSeq(s, 1, Len(prefix)) = prefix

\* Options.WorkDirectory
WorkDirectory == <<Slash, "w">>

\* The path an archive entry is written to.
EntryPath(name) == Join(WorkDirectory, name)

\* The test of line 237 that guards every write of the extraction loop.
PathAllowed(name) == HasPrefix(EntryPath(name), Clean(WorkDirectory))

\* The elements of a cleaned path.
Elements(path) == CleanElems(Split(path), <<>>, IsRooted(path))

\* path is dir itself or lies below it in the directory tree.
Inside(path, dir) ==
    /\ Len(Elements(dir)) <= Len(Elements(path))
    /\ SubSeq(Elements(path), 1, Len(Elements(dir))) = Elements(dir)

\* ------------------------------------------------------------------ jobs
\* What an AcquireJob response carries besides its JobId.
NameGood == <<"t">>
NameUpper == <<Dot, Dot, Slash, "e">>
NameLater == <<"u">>
\* An entry that names a sibling of the work directory.
NameSibling == <<Dot, Dot, Slash, "w", "2">>

\* The limit of the copy of one regular file: (1<<20)*10 bytes.
CopyLimit == 10485760

\* A regular-file entry of the archive: header.Name and the number of bytes
\* the tar reader yields for it.
File(name, size) == [Name |-> name, Size |-> size, Typeflag |-> "TypeReg"]
\* A directory entry, and an entry of a type the extraction has no case for.
Dir(name) == [Name |-> name, Size |-> 0, Typeflag |-> "TypeDir"]
Symlink(name) == [Name |-> name, Size |-> 0, Typeflag |-> "TypeSymlink"]

ArchiveGood == <<File(NameGood, 0)>>
ArchiveUpper == <<File(NameGood, CopyLimit), File(NameUpper, 1), File(NameLater, 1)>>
ArchiveSibling == <<File(NameSibling, 1)>>
\* An archive of a directory, a symbolic link and a file that is a byte longer
\* than the copy limit.
ArchiveLarge == <<Dir(<<"d">>), Symlink(<<"l">>), File(NameGood, CopyLimit + 1)>>

\* Logs is the number of Log messages the provisioner's stream yields for the
\* job before its Complete.
ShapeGood ==
    [Provisioner |-> "someprovisioner", Archive |-> ArchiveGood, Type |-> "ProjectImport",
     Logs |-> 1]
ShapeUpper ==
    [Provisioner |-> "someprovisioner", Archive |-> ArchiveUpper, Type |-> "ProjectImport",
     Logs |-> 1]
ShapeUnregistered ==
    [Provisioner |-> "unregistered", Archive |-> ArchiveGood, Type |-> "ProjectImport",
     Logs |-> 1]
ShapeSibling ==
    [Provisioner |-> "someprovisioner", Archive |-> ArchiveSibling, Type |-> "WorkspaceProvision",
     Logs |-> 0]
\* A job whose Type is not set: the payload of a type the daemon's protocol
\* version does not know decodes to a nil Type.
ShapeUntyped ==
    [Provisioner |-> "someprovisioner", Archive |-> <<>>, Type |-> "", Logs |-> 0]
ShapeLarge ==
    [Provisioner |-> "someprovisioner", Archive |-> ArchiveLarge, Type |-> "ProjectImport",
     Logs |-> 0]
ShapeLogs ==
    [Provisioner |-> "someprovisioner", Archive |-> <<>>, Type |-> "ProjectImport",
     Logs |-> MaxLogs]

JobShapes ==
    {ShapeGood, ShapeUpper, ShapeUnregistered, ShapeSibling, ShapeUntyped, ShapeLarge}

\* The jobs handed to a daemon that is closed while it works.
CloseShapes == {ShapeGood, ShapeUnregistered}

\* Options.Provisioners
Provisioners == {"someprovisioner"}

NoShape == [Provisioner |-> "", Archive |-> <<>>, Type |-> "", Logs |-> 0]

\* ------------------------------------------------------------------ goroutines
\* connect is run by the goroutine New starts (0) and, on a reconnect, by the
\* watcher goroutine of the session whose stream ended.
Conn(k) == <<"connect", k>>
Tick(s) == <<"ticker", s>>
Run(j) == <<"runJob", j>>
Sen(j) == <<"cleanup", j>>
Cl(c) == <<"Close", c>>

Connects == {Conn(k) : k \in {0} \cup SessionIds}
Tickers == {Tick(s) : s \in SessionIds}
Runners == {Run(j) : j \in JobIds}
Sentinels == {Sen(j) : j \in JobIds}
Closers == {Cl(c) : c \in CloserIds}
Threads == Connects \cup Tickers \cup Runners \cup Sentinels \cup Closers

\* The error a caller hands to closeWithError: Close passes nil.
CloseArg(c) == IF c = 1 THEN "nil" ELSE "closed with error"

VARIABLES
    pc,                   \* where each goroutine stands
    connectMutex,         \* holder of p.connectMutex, <<>> when free
    client,               \* p.client: the session it belongs to, 0 when nil
    updateStream,         \* p.updateStream: the session it belongs to, 0 when nil
    sessions,             \* sessions established so far
    streamEnded,          \* sessions whose update stream was interrupted
    watched,              \* the session whose stream a ticker's select waits on
    closed,               \* the closed channel has been closed
    closeError,           \* p.closeError
    closeContextDone,     \* p.closeCancel has been called
    closeMutex,           \* holder of p.closeMutex, <<>> when free
    closeResult,          \* what each Close call returned
    waitChan,             \* the channel a Close call receives from
    acquiredJob,          \* p.acquiredJob: <<>> is nil, <<id>> a job, id 0 the empty JobId
    acquiredJobMutex,     \* holder of p.acquiredJobMutex, <<>> when free
    acquiredJobCancel,    \* the job whose context p.acquiredJobCancel cancels, 0 when nil
    acquiredJobCancelled, \* p.acquiredJobCancelled
    acquiredJobRunning,   \* p.acquiredJobRunning
    acquiredJobDone,      \* the job whose channel p.acquiredJobDone is, 0 when nil
    jobCtxCancelled,      \* jobs whose per-job cancel function has been called
    doneClosed,           \* jobs whose done channel has been closed
    jobShape,             \* the AcquireJob response of each job
    jobsLeft,             \* the jobs the control plane still has, in the order it hands them out
    faultsLeft,           \* failures the environment may still inject
    errMsg,               \* the argument of a goroutine's cancelActiveJob call
    archive,              \* the archive each runner's tar reader was opened on
    entry,                \* the archive entry each runner reads next
    logsSeen,             \* Log messages each runner has received
    jobType,              \* the job type each runner's type switch found
    updates,              \* JobUpdate messages sent on the update stream, in order
    rpcs,                 \* CancelJob and CompleteJob calls issued
    completed,            \* job ids whose CompleteJob returned without error
    created,              \* what the extraction loops have created
    disk,                 \* the paths that exist in and around the work directory, by job
    invoked,              \* jobs whose runner called Parse or Provision
    workDirWiped,         \* jobs whose cleanup removed the work directory
    panicked              \* a goroutine dereferenced nil

connVars == <<connectMutex, client, updateStream, sessions, streamEnded, watched>>
closeVars == <<closed, closeError, closeContextDone, closeMutex, closeResult, waitChan>>
slotVars == <<acquiredJob, acquiredJobMutex, acquiredJobCancel, acquiredJobCancelled,
              acquiredJobRunning, acquiredJobDone>>
jobVars == <<jobCtxCancelled, doneClosed, jobShape, jobsLeft>>
runVars == <<archive, entry, logsSeen, jobType, created, disk, invoked, workDirWiped>>
rpcVars == <<rpcs, completed, updates>>

vars == <<pc, connVars, closeVars, slotVars, jobVars, faultsLeft, errMsg, runVars,
          rpcVars, panicked>>

\* New: the daemon is constructed and connect has been started; the control
\* plane has n jobs drawn from shapes and the environment may inject faults
\* failures.
Start(n, shapes, faults) ==
    /\ pc = [t \in Threads |-> IF t = Conn(0) THEN "dial" ELSE "idle"]
    /\ connectMutex = Conn(0)
    /\ client = 0
    /\ updateStream = 0
    /\ sessions = 0
    /\ streamEnded = {}
    /\ watched = [s \in SessionIds |-> 0]
    /\ closed = FALSE
    /\ closeError = "nil"
    /\ closeContextDone = FALSE
    /\ closeMutex = <<>>
    /\ closeResult = [c \in CloserIds |-> "pending"]
    /\ waitChan = [c \in CloserIds |-> 0]
    /\ acquiredJob = <<>>
    /\ acquiredJobMutex = <<>>
    /\ acquiredJobCancel = 0
    /\ acquiredJobCancelled = FALSE
    /\ acquiredJobRunning = FALSE
    /\ acquiredJobDone = 0
    /\ jobCtxCancelled = {}
    /\ doneClosed = {}
    /\ jobShape = [j \in JobIds |-> NoShape]
    /\ jobsLeft \in [1..n -> shapes]
    /\ faultsLeft = faults
    /\ errMsg = [t \in Threads |-> ""]
    /\ archive = [j \in JobIds |-> <<>>]
    /\ entry = [j \in JobIds |-> 1]
    /\ logsSeen = [j \in JobIds |-> 0]
    /\ jobType = [j \in JobIds |-> ""]
    /\ updates = <<>>
    /\ rpcs = {}
    /\ completed = {}
    /\ created = {}
    /\ disk = {}
    /\ invoked = {}
    /\ workDirWiped = {}
    /\ panicked = FALSE

Init == Start(CloseJobs, CloseShapes, MaxFaults)

InitJobs == Start(MaxJobs, JobShapes, MaxFaults)

InitLogs == Start(LogJobs, {ShapeLogs}, MaxFaults)

\* A daemon whose control plane has no job to hand out.
InitConnect == Start(0, {}, MaxFaults)

Goto(t, label) == pc' = [pc EXCEPT ![t] = label]

\* The environment makes an operation fail.
Fault == faultsLeft > 0 /\ faultsLeft' = faultsLeft - 1

\* A nil dereference or a close of a nil or closed channel ends the process,
\* and with it every goroutine.
Panic(t) ==
    /\ panicked' = TRUE
    /\ pc' = [x \in Threads |-> "panic"]

\* isClosed
isClosed == closed

\* isRunningJob
isRunningJob == acquiredJobRunning

\* A job context derived from the context of the update stream.
JobCtxDoneWithStream(j) == j \in jobCtxCancelled \/ closeContextDone \/ streamEnded /= {}

\* ctx.Done() of the context acquireJob derives for job j from the daemon context.
JobCtxDone(j) == j \in jobCtxCancelled \/ closeContextDone

\* p.updateStream.Context().Done() of session s: the stream was opened under
\* the daemon context.
StreamDone(s) == s \in streamEnded \/ closeContextDone

\* ------------------------------------------------------------------ connect
\* A retrier whose Wait does not look at the context.
RetrierWaitsOn(done) == TRUE

\* retrier.Wait(ctx): false once the context is done, true after the back-off
\* otherwise.
RetrierWait(done) == ~done

\* The end of connect: the two go statements and the deferred
\* p.connectMutex.Unlock(). The unlock changes nothing but the mutex, and
\* nothing but the Lock of a later connect reads the mutex, so a step that
\* ends connect either unlocks at once (exit "end") or leaves the unlock to
\* ConnectReturn (exit "return").
Unlocks(exit) == IF exit = "end" THEN connectMutex' = <<>> ELSE UNCHANGED connectMutex

\* One turn of the dial loop: retrier.Wait(ctx) ends the loop once the daemon
\* context is cancelled, and the goroutines connect then starts find the
\* daemon closed; p.client, err = p.clientDialer(ctx).
DialTurn(t, exit) ==
    /\ pc[t] = "dial"
    /\ IF ~RetrierWait(closeContextDone)
       THEN Goto(t, exit) /\ Unlocks(exit) /\ UNCHANGED <<client, faultsLeft>>
       ELSE \/ /\ client' = sessions + 1
               /\ Goto(t, "UpdateJob")
               /\ UNCHANGED <<connectMutex, faultsLeft>>
            \/ /\ Fault
               /\ client' = 0
               /\ Goto(t, "dial")
               /\ UNCHANGED connectMutex
    /\ UNCHANGED <<updateStream, sessions, streamEnded, watched, closeVars, slotVars, jobVars,
                   errMsg, runVars, rpcVars, panicked>>

\* p.updateStream, err = p.client.UpdateJob(ctx): a failure drops back to the
\* dial loop; on success connect starts the watcher and the ticker of the new
\* session.
OpenStream(t, exit) ==
    /\ pc[t] = "UpdateJob"
    /\ \/ /\ ~closeContextDone
          /\ sessions' = sessions + 1
          /\ updateStream' = sessions + 1
          /\ pc' = [pc EXCEPT ![t] = exit, ![Conn(sessions + 1)] = "start",
                              ![Tick(sessions + 1)] = "start"]
          /\ Unlocks(exit)
          /\ UNCHANGED faultsLeft
       \/ /\ closeContextDone \/ Fault
          /\ closeContextDone => UNCHANGED faultsLeft
          /\ updateStream' = 0
          /\ Goto(t, "dial")
          /\ UNCHANGED <<connectMutex, sessions>>
    /\ UNCHANGED <<client, streamEnded, watched, closeVars, slotVars, jobVars, errMsg, runVars,
                   rpcVars, panicked>>

\* A turn of the dial loop of a connect that returns in the same step.
ConnectDial == \E t \in Connects : DialTurn(t, "end")

\* The UpdateJob call of a connect that returns in the same step.
ConnectUpdateJob == \E t \in Connects : OpenStream(t, "end")

\* A turn of the dial loop of a connect whose return is a step of its own.
ConnectDialHeld == \E t \in Connects : DialTurn(t, "return")

\* The UpdateJob call of a connect whose return is a step of its own.
ConnectUpdateJobHeld == \E t \in Connects : OpenStream(t, "return")

\* connect returns: the deferred p.connectMutex.Unlock().
ConnectReturn ==
    \E t \in Connects :
      /\ pc[t] = "return"
      /\ connectMutex' = <<>>
      /\ Goto(t, "end")
      /\ UNCHANGED <<client, updateStream, sessions, streamEnded, watched, closeVars, slotVars,
                     jobVars, faultsLeft, errMsg, runVars, rpcVars, panicked>>

\* The update stream of the current session is interrupted.
StreamEnds ==
    /\ ~panicked
    /\ updateStream /= 0
    /\ ~StreamDone(updateStream)
    /\ Fault
    /\ streamEnded' = streamEnded \cup {updateStream}
    /\ UNCHANGED <<pc, connectMutex, client, updateStream, sessions, watched, closeVars, slotVars,
                   jobVars, errMsg, runVars, rpcVars, panicked>>

\* The watcher goroutine: if p.isClosed() return, then its select.
WatcherStart ==
    \E s \in SessionIds :
      /\ pc[Conn(s)] = "start"
      /\ Goto(Conn(s), IF isClosed THEN "end" ELSE "select")
      /\ UNCHANGED <<connVars, closeVars, slotVars, jobVars, faultsLeft, errMsg, runVars, rpcVars,
                     panicked>>

\* select: case <-p.closed returns, case <-p.updateStream.Context().Done()
\* calls p.connect(ctx).
WatcherSelect ==
    \E s \in SessionIds :
      /\ pc[Conn(s)] = "select"
      /\ \/ closed /\ Goto(Conn(s), "end")
         \/ StreamDone(s) /\ Goto(Conn(s), "Lock")
      /\ UNCHANGED <<connVars, closeVars, slotVars, jobVars, faultsLeft, errMsg, runVars, rpcVars,
                     panicked>>

\* A connect that does not wait for the connect mutex.
ConnectEntersAnyway(holder) == TRUE

\* Whether p.connectMutex.Lock() returns while holder has the mutex.
ConnectEnters(holder) == holder = <<>>

\* p.connectMutex.Lock() of the connect a watcher has called.
ConnectLock ==
    \E s \in SessionIds :
      /\ pc[Conn(s)] = "Lock"
      /\ ConnectEnters(connectMutex)
      /\ connectMutex' = Conn(s)
      /\ Goto(Conn(s), "dial")
      /\ UNCHANGED <<client, updateStream, sessions, streamEnded, watched, closeVars, slotVars,
                     jobVars, faultsLeft, errMsg, runVars, rpcVars, panicked>>

\* A ticker goroutine enters its select, which reads p.updateStream.
EnterSelect(s) ==
    IF updateStream = 0
    THEN Panic(Tick(s)) /\ UNCHANGED watched
    ELSE /\ watched' = [watched EXCEPT ![s] = updateStream]
         /\ Goto(Tick(s), "select")
         /\ UNCHANGED panicked

\* The ticker goroutine: if p.isClosed() return, then its loop.
TickerStart ==
    \E s \in SessionIds :
      /\ pc[Tick(s)] = "start"
      /\ IF isClosed
         THEN Goto(Tick(s), "end") /\ UNCHANGED <<watched, panicked>>
         ELSE EnterSelect(s)
      /\ UNCHANGED <<connectMutex, client, updateStream, sessions, streamEnded, closeVars, slotVars, jobVars,
                     faultsLeft, errMsg, runVars, rpcVars>>

\* select: case <-p.closed and case <-p.updateStream.Context().Done() return.
TickerStops ==
    \E s \in SessionIds :
      /\ pc[Tick(s)] = "select"
      /\ closed \/ StreamDone(watched[s])
      /\ Goto(Tick(s), "end")
      /\ UNCHANGED <<connVars, closeVars, slotVars, jobVars, faultsLeft, errMsg, runVars, rpcVars,
                     panicked>>

\* ------------------------------------------------------------------ acquireJob
\* An acquireJob that does not look at the running flag.
AcquireSkipsNever(running) == FALSE

\* The running test of acquireJob, taken with the slot mutex held.
AcquireSkips(running) == running

\* Whether acquireJob may enter while holder has the slot mutex.
MutexFree(holder) == holder = <<>>

\* An acquireJob that returns without unlocking.
ReturnsLocked(holder) == holder

\* The slot mutex after acquireJob returns: defer p.acquiredJobMutex.Unlock().
DeferredUnlock(holder) == <<>>

\* select: case <-ticker.C, then acquireJob up to the AcquireJob call: the
\* mutex is taken and the running flag read.
AcquireLock ==
    \E s \in SessionIds :
      /\ pc[Tick(s)] = "select"
      /\ MutexFree(acquiredJobMutex)
      /\ IF AcquireSkips(isRunningJob)
         THEN EnterSelect(s) /\ UNCHANGED acquiredJobMutex
         ELSE /\ IF client = 0
                 THEN Panic(Tick(s))
                 ELSE Goto(Tick(s), "AcquireJob") /\ UNCHANGED panicked
              /\ acquiredJobMutex' = Tick(s)
              /\ UNCHANGED watched
      /\ UNCHANGED <<connectMutex, client, updateStream, sessions, streamEnded, closeVars, acquiredJob,
                     acquiredJobCancel, acquiredJobCancelled, acquiredJobRunning, acquiredJobDone,
                     jobVars, faultsLeft, errMsg, runVars, rpcVars>>

\* p.acquiredJob, err = p.client.AcquireJob(ctx, ...) returned an error.
AcquireError ==
    \E s \in SessionIds :
      /\ pc[Tick(s)] = "AcquireJob"
      /\ closeContextDone \/ Fault
      /\ closeContextDone => UNCHANGED faultsLeft
      /\ acquiredJob' = <<>>
      /\ acquiredJobMutex' = DeferredUnlock(acquiredJobMutex)
      /\ EnterSelect(s)
      /\ UNCHANGED <<connectMutex, client, updateStream, sessions, streamEnded, closeVars, acquiredJobCancel,
                     acquiredJobCancelled, acquiredJobRunning, acquiredJobDone, jobVars, errMsg,
                     runVars, rpcVars>>

\* AcquireJob returned a response with an empty JobId.
AcquireEmpty ==
    \E s \in SessionIds :
      /\ pc[Tick(s)] = "AcquireJob"
      /\ ~closeContextDone
      /\ acquiredJob' = <<0>>
      /\ Goto(Tick(s), "isClosed")
      /\ UNCHANGED <<connVars, closeVars, acquiredJobMutex, acquiredJobCancel, acquiredJobCancelled,
                     acquiredJobRunning, acquiredJobDone, jobVars, faultsLeft, errMsg, runVars,
                     rpcVars, panicked>>

\* AcquireJob returned the next job of the control plane.
AcquireResponse ==
    \E s \in SessionIds :
      /\ pc[Tick(s)] = "AcquireJob"
      /\ ~closeContextDone
      /\ jobsLeft /= <<>>
      /\ LET j == Cardinality({i \in JobIds : jobShape[i] /= NoShape}) + 1 IN
           /\ jobsLeft' = Tail(jobsLeft)
           /\ jobShape' = [jobShape EXCEPT ![j] = Head(jobsLeft)]
           /\ acquiredJob' = <<j>>
      /\ Goto(Tick(s), "isClosed")
      /\ UNCHANGED <<connVars, closeVars, acquiredJobMutex, acquiredJobCancel, acquiredJobCancelled,
                     acquiredJobRunning, acquiredJobDone, jobCtxCancelled, doneClosed, faultsLeft,
                     errMsg, runVars, rpcVars, panicked>>

\* if p.isClosed() return; if p.acquiredJob.JobId == "" return
AcquireCheck ==
    \E s \in SessionIds :
      /\ pc[Tick(s)] = "isClosed"
      /\ IF isClosed \/ acquiredJob = <<0>>
         THEN /\ acquiredJobMutex' = DeferredUnlock(acquiredJobMutex)
              /\ EnterSelect(s)
         ELSE /\ Goto(Tick(s), "setCancel")
              /\ UNCHANGED <<acquiredJobMutex, watched, panicked>>
      /\ UNCHANGED <<connectMutex, client, updateStream, sessions, streamEnded, closeVars, acquiredJob,
                     acquiredJobCancel, acquiredJobCancelled, acquiredJobRunning, acquiredJobDone,
                     jobVars, faultsLeft, errMsg, runVars, rpcVars>>

\* ctx, p.acquiredJobCancel = context.WithCancel(ctx); p.acquiredJobCancelled.Store(false)
AcquireSetCancel ==
    \E s \in SessionIds :
      /\ pc[Tick(s)] = "setCancel"
      /\ acquiredJobCancel' = acquiredJob[1]
      /\ acquiredJobCancelled' = FALSE
      /\ Goto(Tick(s), "setRunning")
      /\ UNCHANGED <<connVars, closeVars, acquiredJob, acquiredJobMutex, acquiredJobRunning,
                     acquiredJobDone, jobVars, faultsLeft, errMsg, runVars, rpcVars, panicked>>

\* p.acquiredJobRunning.Store(true)
AcquireSetRunning ==
    \E s \in SessionIds :
      /\ pc[Tick(s)] = "setRunning"
      /\ acquiredJobRunning' = TRUE
      /\ Goto(Tick(s), "spawn")
      /\ UNCHANGED <<connVars, closeVars, acquiredJob, acquiredJobMutex, acquiredJobCancel,
                     acquiredJobCancelled, acquiredJobDone, jobVars, faultsLeft, errMsg, runVars,
                     rpcVars, panicked>>

\* p.acquiredJobDone = make(chan struct{}); go p.runJob(ctx); the deferred
\* unlock. runJob starts its cleanup goroutine first.
AcquireSpawn ==
    \E s \in SessionIds :
      /\ pc[Tick(s)] = "spawn"
      /\ LET j == acquiredJobCancel IN
           /\ acquiredJobDone' = j
           /\ IF updateStream = 0
              THEN Panic(Tick(s)) /\ UNCHANGED watched
              ELSE /\ watched' = [watched EXCEPT ![s] = updateStream]
                   /\ pc' = [pc EXCEPT ![Tick(s)] = "select", ![Run(j)] = "lookup", ![Sen(j)] = "wait"]
                   /\ UNCHANGED panicked
      /\ acquiredJobMutex' = DeferredUnlock(acquiredJobMutex)
      /\ UNCHANGED <<connectMutex, client, updateStream, sessions, streamEnded, closeVars, acquiredJob,
                     acquiredJobCancel, acquiredJobCancelled, acquiredJobRunning, jobVars,
                     faultsLeft, errMsg, runVars, rpcVars>>

\* ------------------------------------------------------------------ runJob
\* A call of cancelActiveJob(msg) by goroutine t.
CallCancel(t, msg) ==
    /\ errMsg' = [errMsg EXCEPT ![t] = msg]
    /\ Goto(t, "isRunningJob")

\* The fields of *p.acquiredJob, for a reader that found it non-nil.
SlotShape == IF acquiredJob[1] = 0 THEN NoShape ELSE jobShape[acquiredJob[1]]

\* provisioner, hasProvisioner := p.opts.Provisioners[p.acquiredJob.Provisioner]
RunLookup(j) ==
    /\ pc[Run(j)] = "lookup"
    /\ IF acquiredJob = <<>>
       THEN Panic(Run(j)) /\ UNCHANGED errMsg
       ELSE /\ UNCHANGED panicked
            /\ IF SlotShape.Provisioner \in Provisioners
               THEN Goto(Run(j), "mkdir") /\ UNCHANGED errMsg
               ELSE CallCancel(Run(j), "provisioner not registered")
    /\ UNCHANGED <<connVars, closeVars, slotVars, jobVars, faultsLeft, runVars, rpcVars>>

\* The directory a path of the model's depth is created in: the work
\* directory for a path below it, else a directory that always exists.
HasParent(path) ==
    (Inside(path, WorkDirectory) /\ path /= Clean(WorkDirectory)) =>
       \E d \in disk : d.path = Clean(WorkDirectory)

\* The disk after runner j creates path, which leaves an existing path alone.
Put(j, path, on) == IF \E d \in on : d.path = path THEN on ELSE on \cup {[job |-> j, path |-> path]}

\* The disk after os.MkdirAll(path, mode) by runner j: the missing parents
\* are created along with path.
MkdirAll(j, path) ==
    IF Inside(path, WorkDirectory)
    THEN Put(j, path, Put(j, Clean(WorkDirectory), disk))
    ELSE Put(j, path, disk)

\* The disk after os.RemoveAll(p.opts.WorkDirectory).
RemoveAll == {d \in disk : ~Inside(d.path, WorkDirectory)}

\* os.MkdirAll(p.opts.WorkDirectory, 0600), then the tar reader is opened on
\* p.acquiredJob.ProjectSourceArchive.
RunMkdir(j) ==
    /\ pc[Run(j)] = "mkdir"
    /\ \/ /\ Fault
          /\ CallCancel(Run(j), "create work directory")
          /\ UNCHANGED <<archive, disk, panicked>>
       \/ /\ UNCHANGED faultsLeft
          /\ disk' = MkdirAll(j, Clean(WorkDirectory))
          /\ IF acquiredJob = <<>>
             THEN Panic(Run(j)) /\ UNCHANGED <<archive, errMsg>>
             ELSE /\ archive' = [archive EXCEPT ![j] = SlotShape.Archive]
                  /\ Goto(Run(j), "extract")
                  /\ UNCHANGED <<errMsg, panicked>>
    /\ UNCHANGED <<connVars, closeVars, slotVars, jobVars, entry, logsSeen, jobType, created,
                   invoked, workDirWiped, rpcVars>>

\* Whether the extraction loop goes on to write the entry called name.
ExtractAllows(name) == PathAllowed(name)

\* io.CopyN(dst, src, n) from a source that yields size bytes and then io.EOF:
\* it copies through a reader limited to n bytes, and reports io.EOF only if
\* the source ended before n bytes were written.
CopyN(size, n) ==
    IF size < n THEN [written |-> size, err |-> "EOF"]
    ELSE [written |-> n, err |-> ""]

\* if errors.Is(err, io.EOF) { err = nil }
CopyError(err) == IF err = "EOF" THEN "" ELSE err

\* switch header.Typeflag: the types the extraction loop has a case for.
HasCaseAlways(typeflag) == TRUE
HasCase(typeflag) == typeflag \in {"TypeDir", "TypeReg"}

\* One turn of the extraction loop: reader.Next(), the path test, the write.
\* The next reader.Next() skips what the copy left unread of the entry.
RunExtract(j) ==
    /\ pc[Run(j)] = "extract"
    /\ IF entry[j] > Len(archive[j])
       THEN /\ Goto(Run(j), "dispatch")
            /\ UNCHANGED <<errMsg, entry, created, disk, faultsLeft>>
       ELSE LET header == archive[j][entry[j]]
                copy == CopyN(header.Size, CopyLimit)
            IN
            IF ~ExtractAllows(header.Name)
            THEN /\ CallCancel(Run(j), "tar attempts to target relative upper directory")
                 /\ UNCHANGED <<entry, created, disk, faultsLeft>>
            ELSE \/ /\ UNCHANGED faultsLeft
                    /\ IF header.Typeflag = "TypeReg" /\ ~HasParent(EntryPath(header.Name))
                       THEN /\ CallCancel(Run(j), "create file")
                            /\ UNCHANGED <<entry, created, disk>>
                       ELSE
                       IF header.Typeflag = "TypeReg" /\ CopyError(copy.err) /= ""
                       THEN /\ CallCancel(Run(j), "copy file")
                            /\ disk' = Put(j, EntryPath(header.Name), disk)
                            /\ UNCHANGED <<entry, created>>
                       ELSE /\ disk' =
                                 IF ~HasCase(header.Typeflag) THEN disk
                                 ELSE IF header.Typeflag = "TypeDir"
                                 THEN MkdirAll(j, EntryPath(header.Name))
                                 ELSE Put(j, EntryPath(header.Name), disk)
                            /\ created' =
                                 IF HasCase(header.Typeflag)
                                 THEN created \cup
                                        {[job |-> j, path |-> EntryPath(header.Name),
                                          type |-> header.Typeflag,
                                          size |-> IF header.Typeflag = "TypeDir" THEN 0
                                                   ELSE copy.written]}
                                 ELSE created
                            /\ entry' = [entry EXCEPT ![j] = @ + 1]
                            /\ Goto(Run(j), "extract")
                            /\ UNCHANGED errMsg
                 \/ /\ HasCase(header.Typeflag)
                    /\ Fault
                    /\ CallCancel(Run(j), IF header.Typeflag = "TypeDir" THEN "mkdir"
                                          ELSE "create file")
                    /\ UNCHANGED <<entry, created, disk>>
    /\ UNCHANGED <<connVars, closeVars, slotVars, jobVars, archive, logsSeen, jobType, invoked,
                   workDirWiped, rpcVars, panicked>>

JobTypes == {"ProjectImport", "WorkspaceProvision"}

\* The text runProjectImport and runWorkspaceProvision cancel the job with.
Cause(type, import, workspace) == IF type = "ProjectImport" THEN import ELSE workspace

\* reflect.TypeOf(t).String() for a Type t of the oneof: TypeOf of a nil
\* interface value is nil, and the String call on it is a nil dereference.
TypeNamePanics(type) == type = ""

\* switch jobType := p.acquiredJob.Type.(type), and the Parse or Provision call
\* that opens the provisioner stream under the job's context. The default
\* branch builds its cause from the name of the Type before it cancels.
RunDispatch(j) ==
    /\ pc[Run(j)] = "dispatch"
    /\ IF acquiredJob = <<>> \/ TypeNamePanics(SlotShape.Type)
       THEN Panic(Run(j)) /\ UNCHANGED <<errMsg, invoked, jobType, faultsLeft>>
       ELSE /\ UNCHANGED panicked
            /\ jobType' = [jobType EXCEPT ![j] = SlotShape.Type]
            /\ IF SlotShape.Type \notin JobTypes
               THEN /\ CallCancel(Run(j), "unknown job type")
                    /\ UNCHANGED <<invoked, faultsLeft>>
               ELSE \/ /\ ~JobCtxDone(j)
                       /\ invoked' = invoked \cup {j}
                       /\ Goto(Run(j), "Recv")
                       /\ UNCHANGED <<errMsg, faultsLeft>>
                    \/ /\ JobCtxDone(j) \/ Fault
                       /\ JobCtxDone(j) => UNCHANGED faultsLeft
                       /\ CallCancel(Run(j), Cause(SlotShape.Type, "parse source", "provision"))
                       /\ UNCHANGED invoked
    /\ UNCHANGED <<connVars, closeVars, slotVars, jobVars, archive, entry, logsSeen, created,
                   disk, workDirWiped, rpcVars>>

\* The Types of a provisioner message that are neither Log nor Complete: one
\* the daemon does not know, and the nil Type of a message with none set.
OtherTypes == {"Other", ""}

\* stream.Recv(): the next Log of the job's stream, the Complete that follows
\* the last one, a message of another type, or an error; the stream ends with
\* an error once the job's context is cancelled. The default branch builds
\* its cause from the name of the message's Type before it cancels.
RunRecv(j) ==
    /\ pc[Run(j)] = "Recv"
    /\ \/ /\ logsSeen[j] < jobShape[j].Logs
          /\ logsSeen' = [logsSeen EXCEPT ![j] = @ + 1]
          /\ Goto(Run(j), "Send")
          /\ UNCHANGED <<errMsg, faultsLeft, panicked>>
       \/ /\ logsSeen[j] = jobShape[j].Logs
          /\ Goto(Run(j), "CompleteJob")
          /\ UNCHANGED <<errMsg, logsSeen, faultsLeft, panicked>>
       \/ /\ Fault
          /\ \E type \in OtherTypes :
               IF TypeNamePanics(type)
               THEN Panic(Run(j)) /\ UNCHANGED errMsg
               ELSE CallCancel(Run(j), "invalid message type") /\ UNCHANGED panicked
          /\ UNCHANGED logsSeen
       \/ /\ JobCtxDone(j) \/ Fault
          /\ JobCtxDone(j) => UNCHANGED faultsLeft
          /\ CallCancel(Run(j), Cause(jobType[j], "recv parse source", "recv workspace provision"))
          /\ UNCHANGED <<logsSeen, panicked>>
    /\ UNCHANGED <<connVars, closeVars, slotVars, jobVars, archive, entry, jobType, created,
                   disk, invoked, workDirWiped, rpcVars>>

\* The field of the JobUpdate that carries the logs of a job of this type.
LogsField(type) == Cause(type, "ProjectImportLogs", "WorkspaceProvisionLogs")

\* p.updateStream.Send(&proto.JobUpdate{JobId: p.acquiredJob.JobId, ...}) with
\* the Log message just received, the logsSeen[j]-th of the stream.
RunSend(j) ==
    /\ pc[Run(j)] = "Send"
    /\ IF acquiredJob = <<>> \/ updateStream = 0
       THEN Panic(Run(j)) /\ UNCHANGED <<errMsg, faultsLeft, updates>>
       ELSE /\ UNCHANGED panicked
            /\ \/ /\ ~StreamDone(updateStream)
                  /\ updates' = Append(updates, [JobId |-> acquiredJob[1], by |-> Run(j),
                                                 Field |-> LogsField(jobType[j]),
                                                 Output |-> logsSeen[j]])
                  /\ Goto(Run(j), "Recv")
                  /\ UNCHANGED <<errMsg, faultsLeft>>
               \/ /\ StreamDone(updateStream) \/ Fault
                  /\ StreamDone(updateStream) => UNCHANGED faultsLeft
                  /\ CallCancel(Run(j), Cause(jobType[j], "update job", "send job update"))
                  /\ UNCHANGED updates
    /\ UNCHANGED <<connVars, closeVars, slotVars, jobVars, runVars, rpcs, completed>>

\* p.client.CompleteJob(ctx, &proto.CompletedJob{JobId: p.acquiredJob.JobId, ...})
\* is issued, with the payload of the runner's job type.
RunComplete(j) ==
    /\ pc[Run(j)] = "CompleteJob"
    /\ IF acquiredJob = <<>> \/ client = 0
       THEN Panic(Run(j)) /\ UNCHANGED rpcs
       ELSE /\ UNCHANGED panicked
            /\ rpcs' = rpcs \cup {[rpc |-> "CompleteJob", JobId |-> acquiredJob[1],
                                   Error |-> "", Type |-> jobType[j], by |-> Run(j)]}
            /\ Goto(Run(j), "CompleteJobReturn")
    /\ UNCHANGED <<connVars, closeVars, slotVars, jobVars, faultsLeft, errMsg, runVars, completed,
                   updates>>

\* The id a goroutine's issued call carries.
SentId(t, kind) == (CHOOSE r \in rpcs : r.by = t /\ r.rpc = kind).JobId

\* CompleteJob returns: without error the runner leaves the stream pump.
RunCompleteReturn(j) ==
    /\ pc[Run(j)] = "CompleteJobReturn"
    /\ \/ /\ ~JobCtxDone(j)
          /\ completed' = completed \cup {SentId(Run(j), "CompleteJob")}
          /\ Goto(Run(j), "finish")
          /\ UNCHANGED <<errMsg, faultsLeft>>
       \/ /\ JobCtxDone(j) \/ Fault
          /\ JobCtxDone(j) => UNCHANGED faultsLeft
          /\ CallCancel(Run(j), "complete job")
          /\ UNCHANGED completed
    /\ UNCHANGED <<connVars, closeVars, slotVars, jobVars, runVars, rpcs, updates, panicked>>

\* p.acquiredJobCancel() at the end of runJob.
RunFinish(j) ==
    /\ pc[Run(j)] = "finish"
    /\ jobCtxCancelled' = jobCtxCancelled \cup {acquiredJobCancel}
    /\ Goto(Run(j), "end")
    /\ UNCHANGED <<connVars, closeVars, slotVars, doneClosed, jobShape, jobsLeft, faultsLeft,
                   errMsg, runVars, rpcVars, panicked>>

\* ------------------------------------------------------------------ cleanup
\* The goroutine runJob starts: select on p.closed and ctx.Done(), then
\* os.RemoveAll(p.opts.WorkDirectory), whose error cancels the job.
CleanupWake(j) ==
    /\ pc[Sen(j)] = "wait"
    /\ closed \/ JobCtxDone(j)
    /\ \/ /\ workDirWiped' = workDirWiped \cup {j}
          /\ disk' = RemoveAll
          /\ Goto(Sen(j), "Lock")
          /\ UNCHANGED <<errMsg, faultsLeft>>
       \/ /\ Fault
          /\ CallCancel(Sen(j), "remove all")
          /\ UNCHANGED <<workDirWiped, disk>>
    /\ UNCHANGED <<connVars, closeVars, slotVars, jobVars, archive, entry, logsSeen, jobType,
                   created, invoked, rpcVars, panicked>>

\* A cleanup that leaves the running flag as it finds it.
CleanupKeeps(running) == running

\* The value the cleanup goroutine leaves in the running flag.
CleanupStores(running) == FALSE

\* p.acquiredJobMutex.Lock(); p.acquiredJobRunning.Store(false)
CleanupStore ==
    \E j \in JobIds :
      /\ pc[Sen(j)] = "Lock"
      /\ acquiredJobMutex = <<>>
      /\ acquiredJobMutex' = Sen(j)
      /\ acquiredJobRunning' = CleanupStores(acquiredJobRunning)
      /\ Goto(Sen(j), "close")
      /\ UNCHANGED <<connVars, closeVars, acquiredJob, acquiredJobCancel, acquiredJobCancelled,
                     acquiredJobDone, jobVars, faultsLeft, errMsg, runVars, rpcVars, panicked>>

\* close(p.acquiredJobDone) and the deferred unlock.
CleanupClose ==
    \E j \in JobIds :
      /\ pc[Sen(j)] = "close"
      /\ IF acquiredJobDone = 0 \/ acquiredJobDone \in doneClosed
         THEN Panic(Sen(j)) /\ UNCHANGED <<doneClosed, acquiredJobMutex>>
         ELSE /\ doneClosed' = doneClosed \cup {acquiredJobDone}
              /\ acquiredJobMutex' = <<>>
              /\ Goto(Sen(j), "end")
              /\ UNCHANGED panicked
      /\ UNCHANGED <<connVars, closeVars, acquiredJob, acquiredJobCancel, acquiredJobCancelled,
                     acquiredJobRunning, acquiredJobDone, jobCtxCancelled, jobShape, jobsLeft,
                     faultsLeft, errMsg, runVars, rpcVars>>

\* ------------------------------------------------------------------ cancelActiveJob
Callers == Runners \cup Sentinels \cup Closers

\* The causes runProjectImport and runWorkspaceProvision cancel the job with.
ImportErrors ==
    {"parse source", "recv parse source", "update job", "provision", "recv workspace provision",
     "send job update", "invalid message type", "complete job"}

\* Where a goroutine continues when its cancelActiveJob call returns: Close
\* goes on to receive from done; runProjectImport returns into runJob, which
\* goes on to its last statement; runJob itself and the cleanup goroutine return.
AfterCancel(t) ==
    IF t \in Closers THEN "readDone"
    ELSE IF errMsg[t] \in ImportErrors THEN "finish"
    ELSE "end"

\* if !p.isRunningJob() return
CancelIsRunning ==
    \E t \in Callers :
      /\ pc[t] = "isRunningJob"
      /\ Goto(t, IF isRunningJob THEN "cancelledLoad" ELSE AfterCancel(t))
      /\ UNCHANGED <<connVars, closeVars, slotVars, jobVars, faultsLeft, errMsg, runVars, rpcVars,
                     panicked>>

\* Whether cancelActiveJob returns at its test of the cancelled flag.
CancelSkips(cancelled) == cancelled

\* if p.acquiredJobCancelled.Load() return
CancelLoad ==
    \E t \in Callers :
      /\ pc[t] = "cancelledLoad"
      /\ Goto(t, IF CancelSkips(acquiredJobCancelled) THEN AfterCancel(t) ELSE "cancelledStore")
      /\ UNCHANGED <<connVars, closeVars, slotVars, jobVars, faultsLeft, errMsg, runVars, rpcVars,
                     panicked>>

\* p.acquiredJobCancelled.Store(true)
CancelStore ==
    \E t \in Callers :
      /\ pc[t] = "cancelledStore"
      /\ acquiredJobCancelled' = TRUE
      /\ Goto(t, "acquiredJobCancel")
      /\ UNCHANGED <<connVars, closeVars, acquiredJob, acquiredJobMutex, acquiredJobCancel,
                     acquiredJobRunning, acquiredJobDone, jobVars, faultsLeft, errMsg, runVars,
                     rpcVars, panicked>>

\* p.acquiredJobCancel()
CancelContext ==
    \E t \in Callers :
      /\ pc[t] = "acquiredJobCancel"
      /\ jobCtxCancelled' = jobCtxCancelled \cup {acquiredJobCancel}
      /\ Goto(t, "CancelJob")
      /\ UNCHANGED <<connVars, closeVars, slotVars, doneClosed, jobShape, jobsLeft, faultsLeft,
                     errMsg, runVars, rpcVars, panicked>>

\* p.client.CancelJob(p.closeContext, &proto.CancelledJob{JobId: p.acquiredJob.JobId, ...}) is issued.
CancelRPC ==
    \E t \in Callers :
      /\ pc[t] = "CancelJob"
      /\ IF acquiredJob = <<>> \/ client = 0
         THEN Panic(t) /\ UNCHANGED rpcs
         ELSE /\ UNCHANGED panicked
              /\ rpcs' = rpcs \cup {[rpc |-> "CancelJob", JobId |-> acquiredJob[1],
                                     Error |-> errMsg[t], Type |-> "", by |-> t]}
              /\ Goto(t, "CancelJobReturn")
      /\ UNCHANGED <<connVars, closeVars, slotVars, jobVars, faultsLeft, errMsg, runVars, completed,
                     updates>>

\* CancelJob returns; its error is only logged.
CancelReturn ==
    \E t \in Callers :
      /\ pc[t] = "CancelJobReturn"
      /\ Goto(t, AfterCancel(t))
      /\ UNCHANGED <<connVars, closeVars, slotVars, jobVars, faultsLeft, errMsg, runVars, rpcVars,
                     panicked>>

\* ------------------------------------------------------------------ Close
\* A closeWithError that does not test isClosed.
CloseAgain(isclosed) == FALSE

\* Whether closeWithError returns the recorded error at once.
CloseReturnsRecorded(isclosed) == isclosed

\* closeWithError takes the close mutex and returns p.closeError if isClosed.
CloseLock ==
    \E c \in CloserIds :
      /\ pc[Cl(c)] = "idle"
      /\ closeMutex = <<>>
      /\ IF CloseReturnsRecorded(isClosed)
         THEN /\ closeResult' = [closeResult EXCEPT ![c] = closeError]
              /\ Goto(Cl(c), "end")
              /\ UNCHANGED closeMutex
         ELSE /\ closeMutex' = Cl(c)
              /\ Goto(Cl(c), "isRunning")
              /\ UNCHANGED closeResult
      /\ UNCHANGED <<connVars, closed, closeError, closeContextDone, waitChan, slotVars, jobVars,
                     faultsLeft, errMsg, runVars, rpcVars, panicked>>

\* if p.isRunningJob()
CloseIsRunning ==
    \E c \in CloserIds :
      /\ pc[Cl(c)] = "isRunning"
      /\ Goto(Cl(c), IF isRunningJob THEN "isCancelled" ELSE "close")
      /\ UNCHANGED <<connVars, closeVars, slotVars, jobVars, faultsLeft, errMsg, runVars, rpcVars,
                     panicked>>

\* The cause Close cancels the running job with.
CloseCause(c) ==
    IF CloseArg(c) = "nil" THEN "provisioner daemon was shutdown gracefully" ELSE CloseArg(c)

\* if !p.acquiredJobCancelled.Load() { p.cancelActiveJob(errMsg) }
CloseIsCancelled ==
    \E c \in CloserIds :
      /\ pc[Cl(c)] = "isCancelled"
      /\ IF acquiredJobCancelled
         THEN Goto(Cl(c), "readDone") /\ UNCHANGED errMsg
         ELSE CallCancel(Cl(c), CloseCause(c))
      /\ UNCHANGED <<connVars, closeVars, slotVars, jobVars, faultsLeft, runVars, rpcVars, panicked>>

\* <-p.acquiredJobDone: the field is read, then the receive blocks on that channel.
CloseReadDone ==
    \E c \in CloserIds :
      /\ pc[Cl(c)] = "readDone"
      /\ waitChan' = [waitChan EXCEPT ![c] = acquiredJobDone]
      /\ Goto(Cl(c), "waitDone")
      /\ UNCHANGED <<connVars, closed, closeError, closeContextDone, closeMutex, closeResult,
                     slotVars, jobVars, faultsLeft, errMsg, runVars, rpcVars, panicked>>

\* The receive from done returns once the channel is closed; a nil channel never is.
CloseWaitDone ==
    \E c \in CloserIds :
      /\ pc[Cl(c)] = "waitDone"
      /\ waitChan[c] \in doneClosed
      /\ Goto(Cl(c), "close")
      /\ UNCHANGED <<connVars, closeVars, slotVars, jobVars, faultsLeft, errMsg, runVars, rpcVars,
                     panicked>>

\* p.closeError = err; close(p.closed)
CloseClosed ==
    \E c \in CloserIds :
      /\ pc[Cl(c)] = "close"
      /\ closeError' = CloseArg(c)
      /\ closed' = TRUE
      /\ Goto(Cl(c), "closeCancel")
      /\ UNCHANGED <<connVars, closeContextDone, closeMutex, closeResult, waitChan, slotVars,
                     jobVars, faultsLeft, errMsg, runVars, rpcVars, panicked>>

\* p.closeCancel(); if p.updateStream != nil the connection of p.client and
\* the stream are closed; return err with the deferred unlock.
CloseReturn ==
    \E c \in CloserIds :
      /\ pc[Cl(c)] = "closeCancel"
      /\ closeContextDone' = TRUE
      /\ IF updateStream /= 0 /\ client = 0
         THEN Panic(Cl(c)) /\ UNCHANGED <<closeResult, closeMutex>>
         ELSE /\ closeResult' = [closeResult EXCEPT ![c] = CloseArg(c)]
              /\ closeMutex' = <<>>
              /\ Goto(Cl(c), "end")
              /\ UNCHANGED panicked
      /\ UNCHANGED <<connVars, closed, closeError, waitChan, slotVars, jobVars, faultsLeft, errMsg,
                     runVars, rpcVars>>

\* ------------------------------------------------------------------ the daemon
\* The goroutines the daemon starts, and its environment.
Daemon ==
    \/ ConnectDial
    \/ ConnectUpdateJob
    \/ StreamEnds
    \/ WatcherStart
    \/ WatcherSelect
    \/ ConnectLock
    \/ TickerStart
    \/ TickerStops
    \/ AcquireLock
    \/ AcquireError
    \/ AcquireEmpty
    \/ AcquireResponse
    \/ AcquireCheck
    \/ AcquireSetCancel
    \/ AcquireSetRunning
    \/ AcquireSpawn
    \/ \E j \in JobIds : RunLookup(j)
    \/ \E j \in JobIds : RunMkdir(j)
    \/ \E j \in JobIds : RunExtract(j)
    \/ \E j \in JobIds : RunDispatch(j)
    \/ \E j \in JobIds : RunRecv(j)
    \/ \E j \in JobIds : RunSend(j)
    \/ \E j \in JobIds : RunComplete(j)
    \/ \E j \in JobIds : RunCompleteReturn(j)
    \/ \E j \in JobIds : RunFinish(j)
    \/ \E j \in JobIds : CleanupWake(j)
    \/ CleanupStore
    \/ CleanupClose
    \/ CancelIsRunning
    \/ CancelLoad
    \/ CancelStore
    \/ CancelContext
    \/ CancelRPC
    \/ CancelReturn

\* The calls of Close and closeWithError.
Closing ==
    \/ CloseLock
    \/ CloseIsRunning
    \/ CloseIsCancelled
    \/ CloseReadDone
    \/ CloseWaitDone
    \/ CloseClosed
    \/ CloseReturn

Next == Daemon \/ Closing

\* A daemon that is closed while it works on the one job the control plane has.
Spec == Init /\ [][Next]_vars

NextJobs == Daemon

\* A daemon that nobody closes, with MaxJobs jobs to acquire.
SpecJobs == InitJobs /\ [][NextJobs]_vars

\* The goroutines of a daemon whose connection stays up and whose control
\* plane answers every AcquireJob with a job.
NextLogs ==
    \/ ConnectDial
    \/ ConnectUpdateJob
    \/ WatcherStart
    \/ TickerStart
    \/ AcquireLock
    \/ AcquireResponse
    \/ AcquireCheck
    \/ AcquireSetCancel
    \/ AcquireSetRunning
    \/ AcquireSpawn
    \/ \E j \in JobIds : RunLookup(j)
    \/ \E j \in JobIds : RunMkdir(j)
    \/ \E j \in JobIds : RunExtract(j)
    \/ \E j \in JobIds : RunDispatch(j)
    \/ \E j \in JobIds : RunRecv(j)
    \/ \E j \in JobIds : RunSend(j)
    \/ \E j \in JobIds : RunComplete(j)
    \/ \E j \in JobIds : RunCompleteReturn(j)
    \/ \E j \in JobIds : RunFinish(j)
    \/ \E j \in JobIds : CleanupWake(j)
    \/ CleanupStore
    \/ CleanupClose
    \/ CancelIsRunning
    \/ CancelLoad
    \/ CancelStore
    \/ CancelContext
    \/ CancelRPC
    \/ CancelReturn

\* A daemon that nobody closes, with LogJobs jobs that log MaxLogs messages each.
SpecLogs == InitLogs /\ [][NextLogs]_vars

\* The connection of a daemon whose control plane has no job, and its
\* callers, with the return of connect a step of its own.
NextConnect ==
    \/ ConnectDialHeld
    \/ ConnectUpdateJobHeld
    \/ ConnectReturn
    \/ StreamEnds
    \/ WatcherStart
    \/ WatcherSelect
    \/ ConnectLock
    \/ TickerStart
    \/ TickerStops
    \/ AcquireLock
    \/ AcquireError
    \/ AcquireEmpty
    \/ AcquireCheck
    \/ CloseLock
    \/ CloseIsRunning
    \/ CloseClosed
    \/ CloseReturn

SpecConnect == InitConnect /\ [][NextConnect]_vars

\* The connection of the daemon and its callers when the scheduler leaves no
\* goroutine of the connection behind: a connect that can take a turn of its
\* dial loop, or return, eventually does.
SpecFair ==
    /\ SpecConnect
    /\ WF_vars(ConnectDialHeld)
    /\ WF_vars(ConnectUpdateJobHeld)
    /\ WF_vars(ConnectReturn)

\* ------------------------------------------------------------------ properties
Cancels(id) == {r \in rpcs : r.rpc = "CancelJob" /\ r.JobId = id}
Completes(id) == {r \in rpcs : r.rpc = "CompleteJob" /\ r.JobId = id}
SentBy(t, kind) == {r \in rpcs : r.rpc = kind /\ r.by = t}

\* Jobs an AcquireJob response has carried.
Acquired == {j \in JobIds : jobShape[j] /= NoShape}

\* A Close call has returned.
CloseReturned == \E c \in CloserIds : closeResult[c] /= "pending"

\* Every goroutine has returned or was never started.
Quiescent == ~panicked /\ \A t \in Threads : pc[t] \in {"idle", "end"}

\* C1: no job gets both a CompleteJob and a CancelJob, and CompleteJob is
\* issued at most once for it; here in the form the claim singles out: a job
\* whose CompleteJob returned without error never has a CancelJob issued.
C1_NoCancelAfterComplete ==
    \A j \in JobIds :
      /\ Cardinality(Completes(j)) <= 1
      /\ j \in completed => Cancels(j) = {}

\* C2: at most one CancelJob is issued for any job, whoever asks for the
\* cancellation.
C2_OneCancelPerJob ==
    \A j \in JobIds : Cardinality(Cancels(j)) <= 1

\* C3: every job an AcquireJob response carried has a CompleteJob or a
\* CancelJob issued for it; stated of the runs that have come to rest, where
\* nothing can issue one any more.
C3_TerminalRpcIssued ==
    Quiescent => \A j \in Acquired : Cancels(j) \cup Completes(j) /= {}

\* Tickers that are inside acquireJob past its running test.
Acquiring ==
    {s \in SessionIds :
       pc[Tick(s)] \in {"AcquireJob", "isClosed", "setCancel", "setRunning", "spawn"}}

\* Job j holds the slot: its runner was started and its cleanup has not yet
\* stored running = false.
InRunning(j) ==
    /\ ~panicked
    /\ pc[Run(j)] /= "idle"
    /\ pc[Sen(j)] /= "close"
    /\ j \notin doneClosed

\* C4: slot exclusivity. At most one job is Running at any moment; while the
\* running flag is set no AcquireJob call is in flight and no runner is being
\* started; and at most one ticker is inside acquireJob.
C4_SlotExclusive ==
    /\ Cardinality({j \in JobIds : InRunning(j)}) <= 1
    /\ Cardinality(Acquiring) <= 1
    /\ \A s \in SessionIds :
         pc[Tick(s)] \in {"AcquireJob", "isClosed", "setCancel"} =>
           /\ ~acquiredJobRunning
           /\ \A j \in JobIds : ~InRunning(j)
    /\ \A j \in JobIds : InRunning(j) => acquiredJobRunning \/ pc[Sen(j)] = "close"

\* C4's case: two tickers are alive after a reconnect, one of them finds the
\* second job running and skips its acquire.
C4_Witness ==
    /\ InRunning(2)
    /\ 1 \in doneClosed
    /\ pc[Tick(1)] = "select"
    /\ pc[Tick(2)] = "select"

\* C5: a Close call always returns; a finite run refutes it when a Close call
\* waits on a done channel that nothing will ever close: a nil channel, or the
\* channel of a job whose cleanup goroutine has returned without closing it.
C5_CloseCanReturn ==
    \A c \in CloserIds :
      pc[Cl(c)] = "waitDone" =>
        /\ waitChan[c] /= 0
        /\ waitChan[c] \in doneClosed \/ pc[Sen(waitChan[c])] /= "end"

\* C6: when Close cancels the running job, the CancelJob it sends is the only
\* CancelJob for that job's id, its cause is the shutdown text (or the caller's
\* error text), and Close returns the error it was called with.
C6_CloseSendsTheOnlyCancel ==
    \A c \in CloserIds :
      \A r \in SentBy(Cl(c), "CancelJob") :
        /\ Cancels(r.JobId) = {r}
        /\ r.Error = CloseCause(c)
        /\ closeResult[c] \in {"pending", CloseArg(c)}

\* C7: a Close that waited for a job's done does not broadcast closed, cancel
\* the daemon context or return before that done is closed and while a
\* CancelJob for that job is still in flight.
C7_CloseAfterCancelReturned ==
    \A c \in CloserIds :
      (pc[Cl(c)] \in {"closeCancel", "end"} /\ waitChan[c] /= 0) =>
        /\ waitChan[c] \in doneClosed
        /\ ~\E t \in Callers :
              /\ pc[t] = "CancelJobReturn"
              /\ \E r \in SentBy(t, "CancelJob") : r.JobId = waitChan[c]

\* The Close calls that found the daemon closed already.
LaterClosers == {c \in CloserIds : closed /\ CloseArg(c) /= closeError}

\* C8: Close is idempotent. Every call returns the error the first call
\* recorded; a later call, sequential or concurrent, issues no CancelJob, and
\* never gets to close the closed channel or cancel the context again.
C8_CloseIdempotent ==
    /\ \A c \in CloserIds : closeResult[c] \in {"pending", closeError}
    /\ \A c \in LaterClosers :
         /\ pc[Cl(c)] \in {"idle", "end", "panic"}
         /\ SentBy(Cl(c), "CancelJob") = {}
         /\ errMsg[Cl(c)] = ""

\* C8's case: closeWithError(err) cancelled the running job and returned
\* err, and the Close call after it returned err too.
C8_Witness ==
    /\ closeResult[2] = "closed with error"
    /\ closeResult[1] = "closed with error"
    /\ SentBy(Cl(2), "CancelJob") /= {}

\* C9: once Close has returned the slot is Idle; the claim's further parts (no
\* goroutine of the daemon runs on) imply it.
C9_IdleAfterClose ==
    CloseReturned => ~acquiredJobRunning

\* The entries of runner j's archive from the first one the path test rejects.
Refused(j) ==
    {k \in 1..Len(archive[j]) :
       \E i \in 1..k : ~PathAllowed(archive[j][i].Name)}

UpperDirectory == "tar attempts to target relative upper directory"

\* C10: once the runner has stopped at an archive entry the path test rejects,
\* exactly one CancelJob has been issued for the job, and its error names the
\* upper directory.
C10_ExactlyOneUpperCancel ==
    \A j \in JobIds :
      (pc[Run(j)] = "end" /\ entry[j] \in Refused(j)) =>
        \E r \in rpcs : Cancels(j) = {r} /\ r.Error = UpperDirectory

\* C11: whatever the extraction loop creates is the work directory or lies
\* below it: no entry name makes it write outside the work directory.
C11_NoWriteOutside ==
    \A c \in created : Inside(c.path, WorkDirectory)

\* The JobUpdate messages sent with this job id, in the order they were sent.
UpdatesOf(id) == SelectSeq(updates, LAMBDA u : u.JobId = id)

\* The runner of job j received Complete after its Log messages, every call
\* it made returned without error, and nothing in the run failed.
HappyPath(j) ==
    /\ pc[Run(j)] = "end"
    /\ errMsg[Run(j)] = ""
    /\ SentBy(Run(j), "CompleteJob") /= {}
    /\ faultsLeft = MaxFaults

\* C12: on the happy path of a job the daemon sends one JobUpdate per Log
\* message, in the logs field of the job's type, then exactly one CompleteJob
\* with the payload of the job's type, and no CancelJob.
C12_HappyPath ==
    \A j \in JobIds :
      HappyPath(j) =>
        /\ Len(UpdatesOf(j)) = logsSeen[j]
        /\ \A k \in 1..Len(UpdatesOf(j)) : UpdatesOf(j)[k].Field = LogsField(jobShape[j].Type)
        /\ \E r \in rpcs : Completes(j) = {r} /\ r.Type = jobShape[j].Type
        /\ Cancels(j) = {}

\* C13: an AcquireJob response with an empty JobId changes no state: the
\* slot's fields stay as they were, no runner or cleanup goroutine is started,
\* and no CompleteJob or CancelJob is issued.
C13_EmptyChangesNothing ==
    [][AcquireEmpty =>
         /\ UNCHANGED <<acquiredJob, acquiredJobCancel, acquiredJobCancelled, acquiredJobRunning,
                        acquiredJobDone, jobCtxCancelled, doneClosed, rpcs>>
         /\ \A j \in JobIds : pc'[Run(j)] = pc[Run(j)] /\ pc'[Sen(j)] = pc[Sen(j)]]_vars

\* Jobs acquired whose provisioner kind is absent from the registry.
Unregistered == {j \in Acquired : jobShape[j].Provisioner \notin Provisioners}

\* C14: for a job whose provisioner kind is not registered no provisioner is
\* invoked and nothing is extracted; once its runner has returned exactly one
\* CancelJob has been issued for it, with the cause "not registered"; and its
\* cleanup wipes the work directory and returns the slot to Idle.
C14_UnregisteredCancelled ==
    \A j \in Unregistered :
      /\ j \notin invoked
      /\ \A c \in created : c.job /= j
      /\ pc[Run(j)] = "end" =>
           \E r \in rpcs : Cancels(j) = {r} /\ r.Error = "provisioner not registered"
      /\ pc[Sen(j)] = "end" => j \in workDirWiped /\ j \in doneClosed

\* C15: a runner that is about to forward a Log message of its job finds no
\* CompleteJob and no CancelJob issued for that job yet, whoever issues it.
C15_NoSendAfterTerminal ==
    \A j \in JobIds :
      pc[Run(j)] = "Send" => Cancels(j) \cup Completes(j) = {}

\* The logs a runner has forwarded, in the order they were sent.
OutputsOf(j) == SelectSeq(updates, LAMBDA u : u.by = Run(j))

\* C16: the Log messages of a job's stream are forwarded once each and in
\* stream order, and the JobUpdates of one job are not interleaved with those
\* of another.
C16_LogsInOrder ==
    /\ \A j \in JobIds :
         \A k \in 1..Len(OutputsOf(j)) : OutputsOf(j)[k].Output = k
    /\ \A i, k, l \in 1..Len(updates) :
         (i < k /\ k < l /\ updates[i].by = updates[l].by) => updates[k].by = updates[i].by

\* No dial followed by UpdateJob has succeeded so far.
NeverConnected == sessions = 0

\* The dial loop of the first connect is still turning.
Dialing == pc[Conn(0)] \in {"dial", "UpdateJob"}

\* C17: while no connection has been established the daemon stays in the dial
\* loop until the daemon context is cancelled, no ticker runs and no AcquireJob
\* is issued, no job is Running, a Close does not wait and returns the error
\* it was called with (nil for Close), and once the daemon context is cancelled
\* the dial loop ends.
C17_DialFailsForever ==
    /\ [](NeverConnected =>
            /\ ~closeContextDone => Dialing
            /\ \A s \in SessionIds : pc[Tick(s)] = "idle"
            /\ Acquired = {}
            /\ ~acquiredJobRunning
            /\ rpcs = {}
            /\ \A c \in CloserIds :
                 /\ pc[Cl(c)] \notin {"isCancelled", "readDone", "waitDone"}
                 /\ closeResult[c] \in {"pending", closeError}
                 /\ closed => closeError \in {CloseArg(d) : d \in CloserIds}
            /\ ~panicked)
    /\ (NeverConnected /\ closeContextDone) ~> (pc[Conn(0)] = "end")

\* A dial has failed, Close has returned nil and the dial loop has ended
\* without a connection.
C17_Witness ==
    /\ NeverConnected
    /\ faultsLeft < MaxFaults
    /\ closeResult[1] = "nil"
    /\ closeError = "nil"
    /\ pc[Conn(0)] = "end"

\* The steps of a reconnect: the update stream ends, the watcher sees it and
\* calls connect, the dial loop turns, the old ticker stops, the goroutines of
\* the new session start.
Reconnect ==
    \/ StreamEnds
    \/ WatcherSelect
    \/ ConnectLock
    \/ ConnectDial
    \/ ConnectUpdateJob
    \/ WatcherStart
    \/ TickerStart
    \/ TickerStops

\* C18: no step of a reconnect changes the slot's job, its running flag, its
\* cancelled flag, its done channel or its cancel function, closes a done
\* channel, ends a job's context or issues an RPC.
C18_ReconnectKeepsJob ==
    [][Reconnect =>
         /\ UNCHANGED <<acquiredJob, acquiredJobRunning, acquiredJobCancelled, acquiredJobDone,
                        acquiredJobCancel, jobCtxCancelled, doneClosed, rpcs>>
         /\ \A j \in JobIds : JobCtxDone(j)' = JobCtxDone(j)]_vars

\* A second session has been established while a job is Running and not
\* cancelled.
C18_Witness ==
    /\ sessions > 1
    /\ acquiredJobRunning
    /\ ~acquiredJobCancelled
    /\ \E j \in JobIds :
         /\ acquiredJob = <<j>>
         /\ pc[Run(j)] \in {"Recv", "Send", "CompleteJob"}
         /\ ~JobCtxDone(j)
         /\ Cancels(j) = {}

\* The cleanup goroutine of job j has returned.
CleanedUp(j) == pc[Sen(j)] = "end"

\* C19: a job's cleanup goroutine returns only after it has closed the job's
\* done channel, and once it has returned with the slot still the job's the
\* running flag is false: the slot is Idle and the next tick can acquire.
C19_SlotReturnsToIdle ==
    \A j \in JobIds :
      CleanedUp(j) =>
        /\ j \in doneClosed
        /\ acquiredJobDone = j => ~acquiredJobRunning

\* The runner of job j was told by CompleteJob that it failed, and has returned.
CompleteFailed(j) == pc[Run(j)] = "end" /\ errMsg[Run(j)] = "complete job"

\* C20: a runner whose CompleteJob returned an error forwards no further
\* log, and by the time it returns exactly one CancelJob has been issued for
\* its job, with the cause "complete job: <error>".
C20_CompleteErrorCancels ==
    \A j \in JobIds :
      CompleteFailed(j) =>
        /\ Len(OutputsOf(j)) = logsSeen[j]
        /\ \E r \in rpcs : Cancels(j) = {r} /\ r.Error = "complete job"

\* The causes with which the stream pumps end on a receive error, a failed
\* send or a message of another type.
PumpErrors ==
    {"recv parse source", "recv workspace provision", "update job", "send job update",
     "invalid message type"}

\* The pump of job j's runner ended on one of these, and the runner has returned.
PumpFailed(j) == pc[Run(j)] = "end" /\ errMsg[Run(j)] \in PumpErrors

\* C21: a runner whose pump ended on a receive error, a failed send or a
\* message of another type has issued no CompleteJob and forwarded nothing it
\* did not receive, and exactly one CancelJob has been issued for its job.
C21_PumpErrorCancels ==
    \A j \in JobIds :
      PumpFailed(j) =>
        /\ SentBy(Run(j), "CompleteJob") = {}
        /\ Len(OutputsOf(j)) <= logsSeen[j]
        /\ Cardinality(Cancels(j)) = 1

\* The runner of job j has finished the extraction of the job's archive.
Extracted(j) == archive[j] = jobShape[j].Archive /\ entry[j] > Len(archive[j])

\* C22: a runner that invoked its provisioner had finished the extraction and
\* chose the method by the Type of its own job, and the dispatch of a job of
\* any other Type invokes nothing and cancels the job with the cause
\* "unknown job type".
C22_DispatchFollowsPayload ==
    /\ [](\A j \in JobIds :
            /\ j \in invoked => Extracted(j) /\ jobType[j] = jobShape[j].Type
            /\ errMsg[Run(j)] = "unknown job type" => jobShape[j].Type \notin JobTypes)
    /\ [][\A j \in JobIds :
            (RunDispatch(j) /\ jobShape[j].Type \notin JobTypes) =>
               /\ errMsg'[Run(j)] = "unknown job type"
               /\ invoked' = invoked
               /\ ~panicked']_vars

\* The cleanup goroutine of job j closes a done channel in this step.
ClosesDone(j) == pc[Sen(j)] = "close" /\ pc'[Sen(j)] = "end"

\* C23: a cleanup goroutine about to close done finds the job's own channel
\* there, still open, with the work directory removed for the job and the
\* running flag false; the close adds that channel alone to the closed ones
\* and leaves the flag false.
C23_DoneClosedOnce ==
    /\ [](\A j \in JobIds :
            pc[Sen(j)] = "close" =>
              /\ acquiredJobDone = j
              /\ j \notin doneClosed
              /\ j \in workDirWiped
              /\ ~acquiredJobRunning)
    /\ [][\A j \in JobIds :
            ClosesDone(j) =>
              /\ doneClosed' = doneClosed \cup {j}
              /\ ~acquiredJobRunning']_vars

\* The done channel of the second job has been closed, after the first's.
C23_Witness ==
    /\ doneClosed = {1, 2}
    /\ workDirWiped = {1, 2}
    /\ pc[Sen(1)] = "end"
    /\ pc[Sen(2)] = "end"
    /\ ~acquiredJobRunning

\* C24: while the running flag is true, p.acquiredJob is a response with a
\* non-empty JobId and p.acquiredJobCancel is the cancel function of that job.
C24_RunningHasJob ==
    acquiredJobRunning =>
      /\ acquiredJob /= <<>>
      /\ acquiredJob /= <<0>>
      /\ acquiredJobCancel /= 0
      /\ acquiredJobCancel = acquiredJob[1]

\* The second job is Running, its runner in the stream pump, after the
\* environment made an operation fail.
C24_Witness ==
    /\ acquiredJobRunning
    /\ acquiredJob = <<2>>
    /\ acquiredJobCancel = 2
    /\ pc[Run(2)] \in {"Recv", "Send", "CompleteJob"}
    /\ faultsLeft < MaxFaults

\* C25: at the step that starts a job's runner the running flag is true, the
\* cancelled flag is false and the done channel put in the slot is the new
\* job's, not closed.
C25_SlotReinitialised ==
    [][AcquireSpawn =>
         /\ acquiredJobRunning
         /\ ~acquiredJobCancelled
         /\ acquiredJobDone' = acquiredJob[1]
         /\ acquiredJobDone' \notin doneClosed]_vars

\* A watcher takes the stream case of its select and calls connect in this step.
WatcherReconnects ==
    WatcherSelect /\ \E s \in SessionIds : pc[Conn(s)] = "select" /\ pc'[Conn(s)] = "Lock"

\* The dial loop a watcher entered calls the dialer in this step: the dial
\* succeeds, or it is the only loop there is and the dial fails.
Redials ==
    /\ ConnectDial
    /\ \E s \in SessionIds :
         /\ pc[Conn(s)] = "dial"
         /\ \/ pc'[Conn(s)] = "UpdateJob"
            \/ /\ faultsLeft' /= faultsLeft
               /\ \A t \in Connects \ {Conn(s)} : pc[t] /= "dial"

\* C26: a watcher that sees its stream ended while the daemon is not closed
\* re-enters the dial loop; an UpdateJob that succeeds establishes a new
\* session and starts its watcher and its ticker, one that fails goes back to
\* the dial loop; once the daemon is closed no watcher calls connect and no
\* dial loop entered by a watcher dials.
C26_Reconnects ==
    /\ [][(WatcherSelect /\ ~closed) => WatcherReconnects]_vars
    /\ [][ConnectUpdateJob =>
            \/ /\ sessions' = sessions + 1
               /\ updateStream' = sessions'
               /\ pc'[Conn(sessions')] = "start"
               /\ pc'[Tick(sessions')] = "start"
            \/ /\ sessions' = sessions
               /\ \E t \in Connects : pc[t] = "UpdateJob" /\ pc'[t] = "dial"]_vars
    /\ [][closed => ~WatcherReconnects /\ ~Redials]_vars

\* The goroutines inside connect, between its Lock and its return.
Connecting == {t \in Connects : pc[t] \in {"dial", "UpdateJob", "return"}}

\* C27: a goroutine inside connect holds the connect mutex, so there is at
\* most one, and a step that assigns p.client or p.updateStream is a step of
\* the one that holds it.
C27_OneConnect ==
    /\ [](\A t \in Connecting : connectMutex = t)
    /\ [][(client' /= client \/ updateStream' /= updateStream) =>
            \E t \in Connecting :
               /\ connectMutex = t
               /\ DialTurn(t, "return") \/ OpenStream(t, "return")]_vars

\* The watcher of the first session has called connect and waits for the
\* mutex, which the first connect has not released yet.
C27_Witness ==
    /\ pc[Conn(0)] = "return"
    /\ connectMutex = Conn(0)
    /\ pc[Conn(1)] = "Lock"

\* Where a goroutine stands while a call of AcquireJob, CancelJob, CompleteJob
\* or a JobUpdate send of its own is in progress or about to be made.
RpcLabels == {"AcquireJob", "CancelJob", "CancelJobReturn", "CompleteJob", "CompleteJobReturn",
              "Send"}

\* Where a runner stands inside the job body.
BodyLabels == {"lookup", "mkdir", "extract", "dispatch", "Recv", "Send", "CompleteJob",
               "CompleteJobReturn", "finish"}

\* The goroutine that holds the slot mutex stands at one of these labels.
HolderAt(labels) == acquiredJobMutex /= <<>> /\ pc[acquiredJobMutex] \in labels

\* C28: the goroutine that holds the slot mutex has no RPC in progress and is
\* not in the job body.
C28_MutexNotAcrossRpc == ~HolderAt(RpcLabels \cup BodyLabels)

\* C28 as amended: the slot mutex is held by acquireJob from the running test
\* through the AcquireJob call to the start of the runner, and by the cleanup
\* goroutine between Store(false) and the close of done; the goroutine that
\* holds it has no CancelJob, CompleteJob or JobUpdate send in progress and is
\* not in the job body.
C28_MutexAcrossAcquireOnly ==
    /\ ~HolderAt((RpcLabels \cup BodyLabels) \ {"AcquireJob"})
    /\ acquiredJobMutex /= <<>> =>
         \/ /\ acquiredJobMutex \in Tickers
            /\ HolderAt({"AcquireJob", "isClosed", "setCancel", "setRunning", "spawn", "panic"})
         \/ /\ acquiredJobMutex \in Sentinels
            /\ HolderAt({"close", "panic"})

\* A ticker holds the slot mutex with its AcquireJob call in progress while
\* the runner of the previous job has a CancelJob in progress.
C28_Witness ==
    /\ HolderAt({"AcquireJob"})
    /\ pc[Run(1)] = "CancelJobReturn"

\* Where a goroutine stands right before it reads a field of *p.acquiredJob.
SlotReads == {"lookup", "mkdir", "dispatch", "Send", "CompleteJob", "CancelJob"}

\* C29: the step in which AcquireJob returns an error starts no runner and no
\* cleanup goroutine, leaves the running flag false, sends no RPC and, while
\* the ticker's session lives, puts the ticker back into its select, from
\* where the next tick polls again; and the nil response the error came with
\* reaches no goroutine that reads the slot's job.
C29_AcquireErrorIgnored ==
    /\ [][AcquireError =>
            /\ ~acquiredJobRunning'
            /\ rpcs' = rpcs
            /\ \A j \in JobIds : pc'[Run(j)] \in {pc[Run(j)], "panic"}
            /\ \A j \in JobIds : pc'[Sen(j)] \in {pc[Sen(j)], "panic"}
            /\ \E s \in SessionIds :
                 /\ pc[Tick(s)] = "AcquireJob"
                 /\ (~closed /\ ~StreamDone(s)) => pc'[Tick(s)] = "select"]_vars
    /\ [](\A t \in Runners \cup Callers : pc[t] \in SlotReads => acquiredJob /= <<>>)

\* The entry the extraction loop of runner j is at.
Header(j) == archive[j][entry[j]]

\* Runner j takes the turn of the extraction loop that copies a regular file:
\* the entry passed the path test and the file was opened.
CopiesFile(j) ==
    /\ RunExtract(j)
    /\ entry[j] <= Len(archive[j])
    /\ PathAllowed(Header(j).Name)
    /\ Header(j).Typeflag = "TypeReg"
    /\ faultsLeft' = faultsLeft

\* C30: no file is written with more bytes than the copy limit; a runner that
\* invoked its provisioner had no entry longer than the limit in its archive;
\* and the turn of the extraction loop that copies an entry writes all its
\* bytes without an error if the entry has at most the limit's bytes, and
\* otherwise cancels the job and writes nothing further.
C30_CopyCapped ==
    /\ [](\A c \in created : c.size <= CopyLimit)
    /\ [](\A j \in invoked :
            \A i \in 1..Len(jobShape[j].Archive) : jobShape[j].Archive[i].Size <= CopyLimit)
    /\ [][\A j \in JobIds : CopiesFile(j) =>
            IF Header(j).Size <= CopyLimit
            THEN /\ [job |-> j, path |-> EntryPath(Header(j).Name), type |-> "TypeReg",
                      size |-> Header(j).Size] \in created'
                 /\ errMsg' = errMsg
            ELSE /\ errMsg'[Run(j)] /= ""
                 /\ pc'[Run(j)] = "isRunningJob"
                 /\ entry' = entry]_vars

\* Runner j takes the turn of the extraction loop for an entry that passed the
\* path test and whose type has no case in the switch.
SkipsEntry(j) ==
    /\ RunExtract(j)
    /\ entry[j] <= Len(archive[j])
    /\ PathAllowed(Header(j).Name)
    /\ Header(j).Typeflag \notin {"TypeDir", "TypeReg"}

C32_CancelUnderDaemonContext ==
    /\ [](\A t \in Callers : pc[t] = "CancelJob" => jobCtxCancelled /= {})
    /\ [][(\E r \in rpcs' \ rpcs : r.rpc = "CancelJob") =>
            jobCtxCancelled /= {} /\ ~closeContextDone]_vars

\* C33: a Close call that waits on the running job's done has closed the
\* closed channel before.
C33_ClosedBeforeWait ==
    \A c \in CloserIds : pc[Cl(c)] \in {"readDone", "waitDone"} => closed

\* The jobs whose runner goroutine has started and not returned, a
\* cancelActiveJob call it is executing included.
LiveRunners == {j \in JobIds : pc[Run(j)] \notin {"idle", "end", "panic"}}

\* C34: at most one runner goroutine is live.
C34_OneRunner ==
    Cardinality(LiveRunners) <= 1

\* What runner j has put into the work directory and is still there, the
\* directory itself included.
InWorkDir(j) == {d \in disk : d.job = j /\ Inside(d.path, WorkDirectory)}

\* C35: once the done of a job is closed the work directory holds nothing the
\* job's runner created, and no step of that runner puts anything on the disk.
C35_NothingAfterDone ==
    /\ [](\A j \in doneClosed : InWorkDir(j) = {})
    /\ [][\A j \in doneClosed : (RunMkdir(j) \/ RunExtract(j)) => disk' = disk]_vars

\* C36: a CancelJob or CompleteJob issued, and a JobUpdate sent, by the runner
\* or the cleanup goroutine started for job j carries the id j, and no such
\* goroutine is about to read the job's id from an empty slot.
C36_OwnJobId ==
    /\ \A j \in JobIds : \A r \in rpcs : r.by \in {Run(j), Sen(j)} => r.JobId = j
    /\ \A j \in JobIds : \A i \in 1..Len(updates) :
         updates[i].by = Run(j) => updates[i].JobId = j
    /\ \A t \in Runners \cup Sentinels :
         pc[t] \in {"Send", "CompleteJob", "CancelJob"} => acquiredJob /= <<>>

\* The goroutines that call a cancel handle in the step: cancelActiveJob's
\* p.acquiredJobCancel() and the one runJob ends with.
CancelCallers ==
    {t \in Threads : pc[t] \in {"acquiredJobCancel", "finish"} /\ pc'[t] /= pc[t]}

\* C37: the step that cancels the context of job j is a step of j's runner, of
\* j's cleanup goroutine or of a Close call.
C37_CancelledByOwn ==
    [][\A j \in jobCtxCancelled' \ jobCtxCancelled :
         CancelCallers \subseteq {Run(j), Sen(j)} \cup Closers]_vars

\* A goroutine is about to call a method of p.client: the ticker's acquireJob,
\* a runner's CompleteJob, a CancelJob.
UsesClient ==
    \/ \E t \in Tickers : pc[t] = "select"
    \/ \E t \in Callers : pc[t] \in {"CompleteJob", "CancelJob"}

\* A goroutine is about to call a method of p.updateStream: a runner's Send,
\* and the ticker that comes back from acquireJob and enters its select, whose
\* case expressions are evaluated on entry.
UsesStream ==
    \/ \E t \in Runners : pc[t] = "Send"
    \/ \E t \in Tickers : pc[t] = "AcquireJob"

\* C38: once a session has been established, a goroutine that is about to use
\* the client finds p.client set, and one that is about to use the update
\* stream finds p.updateStream set.
C38_HandlesPresent ==
    sessions >= 1 =>
       /\ UsesClient => client /= 0
       /\ UsesStream => updateStream /= 0

\* The tickers that wait in their select on a stream that has not ended: the
\* next tick of each of them calls acquireJob.
PollingTickers == {s \in SessionIds : pc[Tick(s)] = "select" /\ ~StreamDone(watched[s])}

\* C39: a ticker in its select waits on the stream of the session it was
\* started for, so that it stops when that stream ends, and at most one ticker
\* at a time waits on a stream that has not ended.
C39_OneTicker ==
    /\ \A s \in SessionIds : pc[Tick(s)] = "select" => watched[s] = s
    /\ Cardinality(PollingTickers) <= 1

====
